---- MODULE Spec2Model ----
(***************************************************************************)
(* A model of the dense linear-algebra core of alumine: Vector<T> and      *)
(* Matrix<T> (src/src/alg/vector.rs, src/src/alg/matrix.rs).               *)
(*                                                                         *)
(* The element type T is modelled by exact rationals <<num, den>> in       *)
(* lowest terms with den > 0, so that division (Gauss-Jordan), square root *)
(* and reciprocal (Cholesky) are computed, never assumed.                  *)
(*                                                                         *)
(* A Vector is its backing Vec (a sequence); a Matrix is the record        *)
(* [n, m, data] of the struct, data holding the columns concatenated.      *)
(* Rust indices are 0-based: cell i of a Vec is element i+1 of the         *)
(* sequence.  A panic (index out of bounds, explicit panic!) is the        *)
(* outcome Panic; Option is modelled by Some(_) and None.                  *)
(***************************************************************************)
EXTENDS Integers, Sequences, FiniteSets

VARIABLES pc, op, a, b, v, w, rng, out,
          samples, labels, model,
          slave, run, seen

\* LinearRegression.model and the arguments of train.
lrVars == <<samples, labels, model>>

\* The CmaEsSlave of a call of CmaEs::optimize; run holds the number t of
\* generations, the generation reached and the slot i of the loop under way;
\* seen holds the number of calls of f, the scores of this generation, the
\* candidates written into the population and the vectors passed to f.
esVars == <<slave, run, seen>>

mlVars == <<lrVars, esVars>>

vars == <<pc, op, a, b, v, w, rng, out, mlVars>>

----------------------------------------------------------------------------
(* Bounds of the model. *)

\* Largest side of a square input of inverse and determinant.
MaxN == 2

\* Largest number of cells (columns times rows) of a rectangular input, and
\* largest side of an input without cells.
MaxCells == 4

\* Largest dimension of a vector input of add_in_place.
MaxLen == 3

\* Largest identity matrix whose determinant is taken.
MaxIdN == 4

\* Largest side of an input of cholesky.
MaxCholN == 3

\* Largest number of cells of an input of swap_cols and swap_rows.
MaxSwapCells == 6

\* Largest number of samples, and largest dimension of a sample, of a call of
\* train.
MaxSamples == 2
MaxFeatures == 2
MaxEsN == 3
MaxPop == 3
MaxGenerations == 2

\* Entries of the square inputs; of the rectangular inputs and the vectors.
SquareEntries == {-1, 0, 1}
Entries == {0, 1}

\* Diagonal and below-diagonal entries of the factors the cholesky inputs
\* are built from.
FactorDiagonal == {1, 2}
FactorBelow == {-1, 0, 1}

----------------------------------------------------------------------------
(* The element type: exact rationals. *)

Abs(i) == IF i < 0 THEN -i ELSE i

RECURSIVE GCD(_, _)
GCD(i, j) == IF j = 0 THEN i ELSE GCD(j, i % j)

\* The rational p/q in lowest terms with a positive denominator.  With q = 0
\* it is one of the three values a Float has besides the numbers: <<1, 0>>
\* (infinity), <<-1, 0>> (-infinity) and <<0, 0>> (NaN).
Rat(p, q) ==
    IF q = 0 THEN <<IF p > 0 THEN 1 ELSE IF p < 0 THEN -1 ELSE 0, 0>>
    ELSE LET g == GCD(Abs(p), Abs(q))
             s == IF q < 0 THEN -1 ELSE 1
         IN  <<(s * p) \div g, (s * q) \div g>>

FromInt(i) == <<i, 1>>

Zero == <<0, 1>>
One == <<1, 1>>
NaN == <<0, 0>>

\* The sum of two infinities is theirs when they are equal and NaN when they
\* are not; NaN makes every result NaN.
RAdd(x, y) ==
    IF x[2] = 0 /\ y[2] = 0 THEN (IF x = y THEN x ELSE NaN)
    ELSE Rat(x[1] * y[2] + y[1] * x[2], x[2] * y[2])
RNeg(x) == <<-x[1], x[2]>>
RSub(x, y) == RAdd(x, RNeg(y))
RMul(x, y) == Rat(x[1] * y[1], x[2] * y[2])
\* Float::recip: 1/0 is infinity, 1/infinity is 0.
RRecip(x) == Rat(x[2], x[1])
\* The division of a Num that is always applied to a nonzero divisor, and the
\* one of a Float: x/0 is an infinity or, for x = 0, NaN.
RDiv(x, y) == RMul(x, RRecip(y))

\* Iterator::collect into a Vec of cnt items: every item is computed once.
Collect(cnt, items) == SubSeq(items, 1, cnt)

\* iter.fold(T::zero(), |a,b| a+b) over the items of a sequence, left to right.
RECURSIVE FoldSum(_)
FoldSum(items) ==
    IF items = <<>> THEN Zero
    ELSE RAdd(FoldSum(SubSeq(items, 1, Len(items) - 1)), items[Len(items)])

\* (0..cnt).map(f).fold(T::zero(), |a,b| a+b), the closure f given as the
\* function it computes on 0..cnt-1.
SumRange(cnt, f) == FoldSum(Collect(cnt, [i \in 1..cnt |-> f[i - 1]]))

----------------------------------------------------------------------------
(* Outcomes of a call. *)

Panic == [tag |-> "panic", val |-> <<>>]
None == [tag |-> "none", val |-> <<>>]
Some(x) == [tag |-> "some", val |-> x]
Ok(x) == [tag |-> "ok", val |-> x]

----------------------------------------------------------------------------
(* Vector<T> *)

\* Vector::new(n, f), the closure f given as the function it computes on
\* 0..n-1.
VectorNew(n, f) == Collect(n, [i \in 1..n |-> f[i - 1]])

\* Vector::dim
dim(vec) == Len(vec)

\* Vector::from_copies(n, model), the model called value here.
from_copies(n, value) == VectorNew(n, [i \in 0..(n - 1) |-> value])

\* Index<usize> for Vector: &self.data[index]
VIndex(vec, i) == vec[i + 1]

----------------------------------------------------------------------------
(* Matrix<T> *)

\* The pairs (x, y) a closure of Matrix::new is called with: column x < n and
\* row y < m.
Cells(n, m) == (0..(n - 1)) \X (0..(m - 1))

\* A faulty variant: the cells are generated row by row, (i % n, i / n), while
\* get_index reads them column by column.
MatrixNewRowMajor(n, m, f) ==
    [n |-> n, m |-> m,
     data |-> Collect(n * m, [i \in 1..(n * m) |-> f[<<(i - 1) % n, (i - 1) \div n>>]])]

\* Matrix::new(n, m, f): cell i of data is f(i / m, i % m), the closure f
\* given as the function it computes on Cells(n, m).
MatrixNew(n, m, f) ==
    [n |-> n, m |-> m,
     data |-> Collect(n * m, [i \in 1..(n * m) |-> f[<<(i - 1) \div m, (i - 1) % m>>]])]

\* Matrix::dummy
dummy == [n |-> 0, m |-> 0, data |-> <<>>]

\* Matrix::get_index
get_index(self, x, y) == y + x * self.m

\* Whether &self.data[get_index((x,y))] is in bounds.
InBounds(self, x, y) == get_index(self, x, y) < Len(self.data)

\* Index<(usize,usize)> for Matrix, for an index in bounds.
Index(self, x, y) == self.data[get_index(self, x, y) + 1]

\* IndexMut<(usize,usize)> for Matrix, followed by the write of value:
\* self[(x,y)] = value.  &mut self.data[i] panics out of bounds.
index_mut(self, x, y, value) ==
    IF ~InBounds(self, x, y) THEN Panic
    ELSE Ok([self EXCEPT !.data[get_index(self, x, y) + 1] = value])

\* Matrix::is_squared
is_squared(self) == self.m = self.n

\* Matrix::zero
zero(n, m) == MatrixNew(n, m, [c \in Cells(n, m) |-> Zero])

\* Matrix::diagonal: zero(n,n), then m[(i,i)] = x for each (i,x) of the vector.
diagonal(vector) ==
    LET n == dim(vector)
        z == zero(n, n)
        OnDiag(i) == {d \in 0..(n - 1) : get_index(z, d, d) = i - 1}
    IN  [z EXCEPT !.data = Collect(n * n,
            [i \in 1..(n * n) |->
                IF OnDiag(i) # {}
                THEN VIndex(vector, CHOOSE d \in OnDiag(i) : TRUE)
                ELSE z.data[i]])]

\* Matrix::scalar
scalar(n, value) == diagonal(from_copies(n, value))

\* Matrix::identity
identity(n) == scalar(n, One)

\* Vec::truncate(len): no effect when len is past the end.
truncate(data, len) == IF len >= Len(data) THEN data ELSE SubSeq(data, 1, len)

\* Vec::split_off(at), for at <= len: the tail [at, len).
split_off(data, at) == SubSeq(data, at + 1, Len(data))

\* A faulty variant: the data is split at the first kept column's number, not
\* at its offset.
keep_cols_split_at_column(self, start, end) ==
    IF end < start THEN Panic
    ELSE LET cut == truncate(self.data, end * self.m)
             at == start
         IN  IF at > 0 /\ at > Len(cut) THEN Panic
             ELSE Ok([n |-> end - start, m |-> self.m,
                      data |-> IF at > 0 THEN split_off(cut, at) ELSE cut])

\* Matrix::keep_cols(start..end).  cols.end - cols.start underflows (panics)
\* when end < start; split_off panics when start * m is past the end.
keep_cols(self, start, end) ==
    IF end < start THEN Panic
    ELSE LET cut == truncate(self.data, end * self.m)
             at == start * self.m
         IN  IF at > 0 /\ at > Len(cut) THEN Panic
             ELSE Ok([n |-> end - start, m |-> self.m,
                      data |-> IF at > 0 THEN split_off(cut, at) ELSE cut])

\* A faulty variant: the column count is not updated.
append_cols_keep_n(self, other) ==
    IF self.m # other.m THEN Panic
    ELSE Ok([n |-> self.n, m |-> self.m,
             data |-> self.data \o other.data])

\* Matrix::append_cols
append_cols(self, other) ==
    IF self.m # other.m THEN Panic
    ELSE Ok([n |-> self.n + other.n, m |-> self.m,
             data |-> self.data \o other.data])

\* Matrix::swap: self.data.swap(ia, ib), which panics out of bounds.
swap(self, xa, ya, xb, yb) ==
    LET ia == get_index(self, xa, ya)
        ib == get_index(self, xb, yb)
    IN  IF ia >= Len(self.data) \/ ib >= Len(self.data) THEN Panic
        ELSE Ok([self EXCEPT !.data = [self.data EXCEPT ![ia + 1] = self.data[ib + 1],
                                                        ![ib + 1] = self.data[ia + 1]]])

\* for x in from..self.n { self.swap((x,ya),(x,yb)); }
RECURSIVE SwapRowsFrom(_, _, _, _)
SwapRowsFrom(self, x, ya, yb) ==
    IF x >= self.n THEN Ok(self)
    ELSE LET r == swap(self, x, ya, x, yb)
         IN  IF r = Panic THEN Panic ELSE SwapRowsFrom(r.val, x + 1, ya, yb)

\* A faulty variant: the loop runs over 0..self.m, the rows, instead of the
\* columns.
RECURSIVE SwapRowsUpToM(_, _, _, _)
SwapRowsUpToM(self, x, ya, yb) ==
    IF x >= self.m THEN Ok(self)
    ELSE LET r == swap(self, x, ya, x, yb)
         IN  IF r = Panic THEN Panic ELSE SwapRowsUpToM(r.val, x + 1, ya, yb)

swap_rows_over_m(self, ya, yb) ==
    IF ya = yb THEN Ok(self) ELSE SwapRowsUpToM(self, 0, ya, yb)

\* Matrix::swap_rows
swap_rows(self, ya, yb) ==
    IF ya = yb THEN Ok(self) ELSE SwapRowsFrom(self, 0, ya, yb)

\* for y in from..self.n { self.swap((xa,y),(xb,y)); }
RECURSIVE SwapColsFrom(_, _, _, _)
SwapColsFrom(self, y, xa, xb) ==
    IF y >= self.n THEN Ok(self)
    ELSE LET r == swap(self, xa, y, xb, y)
         IN  IF r = Panic THEN Panic ELSE SwapColsFrom(r.val, y + 1, xa, xb)

\* Matrix::swap_cols
swap_cols(self, xa, xb) ==
    IF xa = xb THEN Ok(self) ELSE SwapColsFrom(self, 0, xa, xb)

\* Matrix::transpose
transpose(self) ==
    MatrixNew(self.m, self.n, [c \in Cells(self.m, self.n) |-> Index(self, c[2], c[1])])

\* Matrix::from_col
from_col(vec) == MatrixNew(1, dim(vec), [c \in Cells(1, dim(vec)) |-> VIndex(vec, c[2])])

\* Matrix::from_row
from_row(vec) == MatrixNew(dim(vec), 1, [c \in Cells(dim(vec), 1) |-> VIndex(vec, c[1])])

\* Matrix::row(y): Vector::new(self.n, |i| self[(i,y)]), which panics when one
\* of the indices is out of bounds.
row(self, y) ==
    IF \E i \in 0..(self.n - 1) : ~InBounds(self, i, y) THEN Panic
    ELSE Ok(VectorNew(self.n, [i \in 0..(self.n - 1) |-> Index(self, i, y)]))

\* Matrix::set_col(x, col): self[(x,i)] = v for each (i,v) of col, which panics
\* when one of the indices is out of bounds.
set_col(self, x, col) ==
    IF \E i \in 0..(dim(col) - 1) : ~InBounds(self, x, i) THEN Panic
    ELSE Ok([self EXCEPT !.data = Collect(Len(self.data),
            [k \in 1..Len(self.data) |->
                IF \E i \in 0..(dim(col) - 1) : get_index(self, x, i) = k - 1
                THEN VIndex(col, (k - 1) - x * self.m)
                ELSE self.data[k]])])

\* Matrix::from_rows: rows[y][x] panics when a row is shorter than the first.
from_rows(rows) ==
    IF rows = <<>> THEN Ok(dummy)
    ELSE LET m == Len(rows)
             n == dim(rows[1])
         IN  IF \E y \in 0..(m - 1) : dim(rows[y + 1]) < n THEN Panic
             ELSE Ok(MatrixNew(n, m,
                     [c \in Cells(n, m) |-> VIndex(rows[c[2] + 1], c[1])]))

----------------------------------------------------------------------------
(* Gauss-Jordan inversion *)

\* A faulty variant: only the diagonal entry is tried as the pivot.
PivotRowsDiagonalOnly(self, n, k) == {i \in {k} : Index(self, k, i) # Zero}

\* (k..n).find(|&i| self[(k,i)] != T::zero()): the rows the search can stop at.
PivotRows(self, n, k) == {i \in k..(n - 1) : Index(self, k, i) # Zero}

SetMin(S) == CHOOSE i \in S : \A j \in S : i <= j

\* for x in k..self.n { self[(x,k)] = self[(x,k)] / pivot }
DivideRow(self, k, pivot) ==
    [self EXCEPT !.data = Collect(Len(self.data),
        [i \in 1..Len(self.data) |->
            IF (i - 1) % self.m = k /\ (i - 1) \div self.m >= k
            THEN RDiv(self.data[i], pivot)
            ELSE self.data[i]])]

\* for y in (0..n).filter(|&i| i != k) { let value = self[(k,y)];
\*   for x in k..self.n { self[(x,y)] = self[(x,y)] - value * self[(x,k)] } }
\* Row k is never written, and each row y reads only itself and row k.
ZeroOtherRows(self, n, k) ==
    [self EXCEPT !.data = Collect(Len(self.data),
        [i \in 1..Len(self.data) |->
            LET x == (i - 1) \div self.m
                y == (i - 1) % self.m
            IN  IF y # k /\ y < n /\ x >= k
                THEN RSub(self.data[i], RMul(Index(self, k, y), Index(self, x, k)))
                ELSE self.data[i]])]

\* The body of `for k in 0..n` and what follows the loop.
RECURSIVE GaussJordan(_, _, _)
GaussJordan(self, n, k) ==
    IF k >= n THEN
        LET kept == keep_cols(self, n, 2 * n)
        IN  IF kept = Panic THEN Panic ELSE Some(kept.val)
    ELSE IF PivotRows(self, n, k) = {} THEN None
    ELSE LET j == SetMin(PivotRows(self, n, k))
             swapped == swap_rows(self, j, k)
         IN  IF swapped = Panic THEN Panic
             ELSE LET pivot == Index(swapped.val, k, k)
                      divided == DivideRow(swapped.val, k, pivot)
                  IN  GaussJordan(ZeroOtherRows(divided, n, k), n, k + 1)

\* Matrix::invert_in_place
invert_in_place(self) ==
    IF ~is_squared(self) THEN Panic
    ELSE LET n == self.n
             aug == append_cols(self, scalar(n, One))
         IN  IF aug = Panic THEN Panic ELSE GaussJordan(aug.val, n, 0)

\* Matrix::inverse
inverse(self) == invert_in_place(self)

----------------------------------------------------------------------------
(* Products *)

\* Whether evaluating the closure of Mul<&Matrix> for &Matrix indexes out of bounds.
MulOutOfBounds(self, other) ==
    \E x \in 0..(other.n - 1), y \in 0..(self.m - 1), i \in 0..(self.n - 1) :
        ~InBounds(self, i, y) \/ ~InBounds(other, x, i)

\* A faulty variant: every term reads row 0 of other.
MatMulFirstRow(self, other) ==
    IF MulOutOfBounds(self, other) THEN Panic
    ELSE Ok(MatrixNew(other.n, self.m,
            [c \in Cells(other.n, self.m) |-> SumRange(self.n,
                [i \in 0..(self.n - 1) |->
                    RMul(Index(self, i, c[2]), Index(other, c[1], 0))])]))

\* Mul<&Matrix<T>> for &Matrix<T>:
\* Matrix::new(other.n, self.m, |x,y| (0..self.n).map(|i| self[(i,y)] * other[(x,i)]).fold(..))
MatMul(self, other) ==
    IF MulOutOfBounds(self, other) THEN Panic
    ELSE Ok(MatrixNew(other.n, self.m,
            [c \in Cells(other.n, self.m) |-> SumRange(self.n,
                [i \in 0..(self.n - 1) |->
                    RMul(Index(self, i, c[2]), Index(other, c[1], i))])]))

\* Whether evaluating the closure of Mul<&Vector> for &Matrix indexes out of bounds.
MulVecOutOfBounds(self, other) ==
    \E i \in 0..(self.m - 1), j \in 0..(self.n - 1) :
        ~InBounds(self, j, i) \/ j >= dim(other)

\* A faulty variant: the last column is left out of each sum.
MatVecMulShort(self, other) ==
    IF MulVecOutOfBounds(self, other) THEN Panic
    ELSE Ok(VectorNew(self.m,
            [i \in 0..(self.m - 1) |-> SumRange(self.n - 1,
                [j \in 0..(self.n - 2) |-> RMul(Index(self, j, i), VIndex(other, j))])]))

\* Mul<&Vector<T>> for &Matrix<T>
MatVecMul(self, other) ==
    IF MulVecOutOfBounds(self, other) THEN Panic
    ELSE Ok(VectorNew(self.m,
            [i \in 0..(self.m - 1) |-> SumRange(self.n,
                [j \in 0..(self.n - 1) |-> RMul(Index(self, j, i), VIndex(other, j))])]))

----------------------------------------------------------------------------
(* Determinant *)

\* range.permutations() for range = (0..n).collect(): every ordering of
\* 0..n-1 once (one empty ordering when n = 0), each a Vec<usize>, in the
\* order of the standard library's iterator (Steinhaus-Johnson-Trotter: the
\* largest item sweeps through each ordering of the others, right to left
\* and back).
RECURSIVE permutations(_)
permutations(n) ==
    IF n = 0 THEN <<<<>>>>
    ELSE LET before == permutations(n - 1)
             Insert(sigma, pos) ==
                 SubSeq(sigma, 1, pos - 1) \o <<n - 1>> \o SubSeq(sigma, pos, n - 1)
         IN  Collect(Len(before) * n,
                [q \in 1..(Len(before) * n) |->
                    LET t == (q - 1) \div n + 1
                        r == (q - 1) % n
                    IN  Insert(before[t], IF t % 2 = 1 THEN n - r ELSE r + 1)])

\* sigma.into_iter().enumerate().map(|(i,j)| self[(i,j)]).fold(T::one(), |a,b| a*b),
\* over the first cnt items.
RECURSIVE PermProduct(_, _, _)
PermProduct(self, sigma, cnt) ==
    IF cnt = 0 THEN One
    ELSE RMul(PermProduct(self, sigma, cnt - 1), Index(self, cnt - 1, sigma[cnt]))

\* The sum of the items lo..hi of a sequence, starting from zero.  Addition of
\* exact rationals is associative, so the n! terms of a determinant are added
\* by halves, which keeps the recursion shallow, instead of one after the other.
RECURSIVE SumByHalves(_, _, _)
SumByHalves(items, lo, hi) ==
    IF lo > hi THEN Zero
    ELSE IF lo = hi THEN RAdd(Zero, items[lo])
    ELSE LET mid == (lo + hi) \div 2
         IN  RAdd(SumByHalves(items, lo, mid), SumByHalves(items, mid + 1, hi))

\* for sigma in range.permutations() { sum = sum + <product of sigma> }
SumPermProducts(self, sigmas) ==
    SumByHalves(Collect(Len(sigmas),
                    [q \in 1..Len(sigmas) |-> PermProduct(self, sigmas[q], self.n)]),
                1, Len(sigmas))

\* A faulty variant: the sum starts from one instead of zero.
determinant_from_one(self) ==
    IF self.m # self.n THEN Zero
    ELSE RAdd(One, SumPermProducts(self, permutations(self.n)))

\* Matrix::determinant
determinant(self) ==
    IF self.m # self.n THEN Zero
    ELSE SumPermProducts(self, permutations(self.n))

----------------------------------------------------------------------------
(* Cholesky decomposition *)

IsSquareNumber(i) == \E r \in 0..i : r * r = i

ISqrt(i) == CHOOSE r \in 0..i : r * r = i

\* Whether Float::sqrt of x is computed without rounding: x is not a positive
\* number, or it is the square of a rational.
ExactRoot(x) == x[1] <= 0 \/ x[2] = 0 \/ (IsSquareNumber(x[1]) /\ IsSquareNumber(x[2]))

\* Float::sqrt, for such an x: NaN for a negative number, -infinity and NaN;
\* zero and infinity are their own roots.
RSqrt(x) ==
    IF x[1] < 0 \/ x = NaN THEN NaN
    ELSE IF x[2] = 0 THEN x
    ELSE <<ISqrt(x[1]), ISqrt(x[2])>>

\* self[(x,x)] - (0..x).map(|i| self[(i,x)]).map(|v| v*v).fold(T::zero(), |a,b| a+b)
CholeskyRadicand(self, x) ==
    RSub(Index(self, x, x),
         SumRange(x, [i \in 0..(x - 1) |-> RMul(Index(self, i, x), Index(self, i, x))]))

\* A faulty variant: the cells above the diagonal are left as they were.
CholeskyColumnKeepAbove(self, n, x) ==
    LET ljj == RSqrt(CholeskyRadicand(self, x))
        iv == RRecip(ljj)
    IN  [self EXCEPT !.data = Collect(Len(self.data),
            [i \in 1..Len(self.data) |->
                LET cx == (i - 1) \div self.m
                    cy == (i - 1) % self.m
                IN  IF cx # x \/ cy >= n THEN self.data[i]
                    ELSE IF cy < x THEN self.data[i]
                    ELSE IF cy = x THEN ljj
                    ELSE RMul(RSub(self.data[i],
                                   SumRange(x, [k \in 0..(x - 1) |->
                                       RMul(Index(self, k, x), Index(self, k, cy))])),
                              iv)])]

\* One round of `for x in 0..n`: column x is zeroed above the diagonal, gets
\* ljj on it, and lij below it; lij reads the columns before x and the cell
\* it replaces.
CholeskyColumn(self, n, x) ==
    LET ljj == RSqrt(CholeskyRadicand(self, x))
        iv == RRecip(ljj)
    IN  [self EXCEPT !.data = Collect(Len(self.data),
            [i \in 1..Len(self.data) |->
                LET cx == (i - 1) \div self.m
                    cy == (i - 1) % self.m
                IN  IF cx # x \/ cy >= n THEN self.data[i]
                    ELSE IF cy < x THEN Zero
                    ELSE IF cy = x THEN ljj
                    ELSE RMul(RSub(self.data[i],
                                   SumRange(x, [k \in 0..(x - 1) |->
                                       RMul(Index(self, k, x), Index(self, k, cy))])),
                              iv)])]

\* The loop of cholesky_in_place from column x on.  A square root that is
\* rounded (of a positive value that is no square) ends it with the outcome
\* "inexact", outside this model.
RECURSIVE CholeskyFrom(_, _, _)
CholeskyFrom(self, n, x) ==
    IF x >= n THEN Ok(self)
    ELSE IF ~ExactRoot(CholeskyRadicand(self, x)) THEN [tag |-> "inexact", val |-> <<>>]
    ELSE CholeskyFrom(CholeskyColumn(self, n, x), n, x + 1)

\* Matrix::cholesky_in_place, for a square matrix.
cholesky_in_place(self) == CholeskyFrom(self, self.n, 0)

\* Matrix::cholesky
cholesky(self) == cholesky_in_place(self)

----------------------------------------------------------------------------
(* Vector::add_in_place *)

\* for (s,o) in self.data.iter_mut().zip(other.data.iter()) { *s = s + o }
\* zip stops at the shorter of the two.
add_in_place(self, other) ==
    Collect(Len(self),
        [i \in 1..Len(self) |->
            IF i <= Len(other) THEN RAdd(self[i], other[i]) ELSE self[i]])

----------------------------------------------------------------------------
(* LinearRegression (src/src/ml/linear.rs) *)

\* Matrix::invert_inplace, the inversion train calls: the Gauss-Jordan
\* inversion, which reports a singular matrix as None.
invert_inplace(self) == invert_in_place(self)

\* A faulty variant: the model is reset when the inversion reports None.
train_reset_on_none(self, rows, targets) ==
    LET x == from_rows(rows)
    IN  IF x = Panic THEN Panic
        ELSE LET tx == transpose(x.val)
                 txx == MatMul(tx, x.val)
             IN  IF txx = Panic THEN Panic
                 ELSE LET inv_txx == invert_inplace(txx.val)
                      IN  IF inv_txx = Panic THEN Panic
                          ELSE IF inv_txx = None THEN Ok(from_copies(dim(self), Zero))
                          ELSE LET pseudo == MatMul(inv_txx.val, tx)
                               IN  IF pseudo = Panic THEN Panic
                                   ELSE MatVecMul(pseudo.val, targets)

\* LinearRegression::train(samples, labels) on the model self: the model after
\* the call, or a panic.
train(self, rows, targets) ==
    LET x == from_rows(rows)
    IN  IF x = Panic THEN Panic
        ELSE LET tx == transpose(x.val)
                 txx == MatMul(tx, x.val)
             IN  IF txx = Panic THEN Panic
                 ELSE LET inv_txx == invert_inplace(txx.val)
                      IN  IF inv_txx = Panic THEN Panic
                          ELSE IF inv_txx = None THEN Ok(self)
                          ELSE LET pseudo == MatMul(inv_txx.val, tx)
                               IN  IF pseudo = Panic THEN Panic
                                   ELSE MatVecMul(pseudo.val, targets)

----------------------------------------------------------------------------
(* CmaEs and CmaEsSlave (src/src/ml/cmaes.rs) *)

\* Vector::zero
VectorZero(n) == VectorNew(n, [i \in 0..(n - 1) |-> Zero])

\* Add<&Vector<T>> for &Vector<T>: zip stops at the shorter of the two.
VectorAdd(self, other) ==
    LET len == IF Len(self) < Len(other) THEN Len(self) ELSE Len(other)
    IN  Collect(len, [i \in 1..len |-> RAdd(self[i], other[i])])

\* Mul<T> for &Vector<T>
VectorScale(self, other) == Collect(Len(self), [i \in 1..Len(self) |-> RMul(self[i], other)])

\* Div<T> for Vector<T>
VectorDiv(self, other) == Collect(Len(self), [i \in 1..Len(self) |-> RDiv(self[i], other)])

\* Float::log10 on the values compute_weights takes it of, rounded to three
\* decimals.
log10(x) ==
    CASE x = <<1, 2>> -> Rat(-301, 1000)
      [] x = <<1, 1>> -> Zero
      [] x = <<3, 2>> -> Rat(176, 1000)
      [] x = <<2, 1>> -> Rat(301, 1000)
      [] x = <<5, 2>> -> Rat(398, 1000)
      [] x = <<3, 1>> -> Rat(477, 1000)
      [] x = <<7, 2>> -> Rat(544, 1000)
      [] x = <<4, 1>> -> Rat(602, 1000)
      [] x = <<9, 2>> -> Rat(653, 1000)

\* CmaEsSlave::new(n, pop)
CmaEsSlaveNew(n, pop) ==
    [n |-> n, pop |-> pop, weights |-> <<>>,
     population |-> zero(pop, n),
     covariance |-> zero(n, n),
     mean |-> VectorZero(n)]

\* CmaEsSlave::compute_weights: the weights after the call.
compute_weights(self) ==
    LET mu == self.n \div 2
        logmu == log10(Rat(2 * mu + 1, 2))
        pushed == Collect(mu, [i \in 1..mu |-> RSub(logmu, log10(FromInt(i)))])
        sum == FoldSum(pushed)
    IN  Collect(mu, [i \in 1..mu |-> RDiv(pushed[i], sum)])

\* CmaEsSlave::generate_sample(mean, L, r, d), with the values drawn from d as
\* the vector normal: mean + L * normal.
generate_sample(mean, L, normal) ==
    LET product == MatVecMul(L, normal)
    IN  IF product = Panic THEN Panic
        ELSE Ok(VectorAdd(mean, product.val))

\* The fold of adapt_covariance from row i on, acc being the sum so far:
\* (0..pop).map(|i| population.row(i)).zip(weights.iter()).fold(.., |a,(b,&w)| a+b*w).
\* zip takes the row i before it finds the weights exhausted.
RECURSIVE WeightedRows(_, _, _)
WeightedRows(self, i, acc) ==
    IF i >= self.pop THEN Ok(acc)
    ELSE LET candidate == row(self.population, i)
         IN  IF candidate = Panic THEN Panic
             ELSE IF i >= Len(self.weights) THEN Ok(acc)
             ELSE WeightedRows(self, i + 1,
                     add_in_place(acc, VectorScale(candidate.val, self.weights[i + 1])))

\* The mean adapt_covariance computes after the scores:
\* the fold from Vector::zero(n), divided by T::from(pop).
adapt_mean(self) ==
    LET folded == WeightedRows(self, 0, VectorZero(self.n))
    IN  IF folded = Panic THEN Panic
        ELSE Ok(VectorDiv(folded.val, FromInt(self.pop)))

\* No optimisation under way.
NoSlave == [n |-> 0, pop |-> 0, weights |-> <<>>, population |-> dummy,
            covariance |-> dummy, mean |-> <<>>]

NothingSeen == [calls |-> 0, scores |-> <<>>, sampled |-> <<>>, passed |-> <<>>]

----------------------------------------------------------------------------
(* Inputs of the calls. *)

Elems(E) == {FromInt(e) : e \in E}

\* The values drawn from the normal distribution, and the scores f returns.
Draws == {-1, 1}
Scores == {0, 1}

\* Every matrix of n columns and m rows with entries in E: what Matrix::new
\* builds from the generators with values in E.
MatricesOf(n, m, E) ==
    {[n |-> n, m |-> m, data |-> d] : d \in [1..(n * m) -> Elems(E)]}

Shapes == {s \in (0..MaxCells) \X (0..MaxCells) : s[1] * s[2] <= MaxCells}

\* Every vector of dimension n with entries in Entries.
VectorsOf(n) == [1..n -> Elems(Entries)]

\* The lower-triangular factors with a positive diagonal: cell (x,y) with
\* column x greater than row y is zero.
Factors(n) ==
    LET Below == {c \in Cells(n, n) : c[1] < c[2]}
    IN  {[c \in Cells(n, n) |->
            IF c[1] > c[2] THEN 0 ELSE IF c[1] = c[2] THEN d[c[1]] ELSE l[c]] :
                d \in [0..(n - 1) -> FactorDiagonal], l \in [Below -> FactorBelow]}

\* The symmetric positive-definite matrix F * F^T of a factor F.
GramOf(n, f) ==
    MatrixNew(n, n, [c \in Cells(n, n) |->
        SumRange(n, [k \in 0..(n - 1) |-> FromInt(f[<<k, c[1]>>] * f[<<k, c[2]>>])])])

----------------------------------------------------------------------------
(* The caller: it builds the arguments of a call, makes the call and takes *)
(* the outcome.                                                            *)

Init ==
    /\ pc = "idle"
    /\ op = "none"
    /\ a = dummy
    /\ b = dummy
    /\ v = <<>>
    /\ w = <<>>
    /\ rng = <<0, 0>>
    /\ out = None
    /\ samples = <<>>
    /\ labels = <<>>
    /\ model = <<>>
    /\ slave = NoSlave
    /\ run = [t |-> 0, gen |-> 0, i |-> 0]
    /\ seen = NothingSeen

\* The caller drops the arguments and the outcome of the last call.
Return ==
    /\ pc = "done"
    /\ pc' = "idle"
    /\ op' = "none"
    /\ a' = dummy
    /\ b' = dummy
    /\ v' = <<>>
    /\ w' = <<>>
    /\ rng' = <<0, 0>>
    /\ out' = None
    /\ samples' = <<>>
    /\ labels' = <<>>
    /\ model' = <<>>
    /\ slave' = NoSlave
    /\ run' = [t |-> 0, gen |-> 0, i |-> 0]
    /\ seen' = NothingSeen

\* One square matrix.
NewSquare ==
    /\ pc = "idle"
    /\ \E n \in 0..MaxN : a' \in MatricesOf(n, n, SquareEntries)
    /\ pc' = "ready"
    /\ op' = "new"
    /\ UNCHANGED <<b, v, w, rng, out>>
    /\ UNCHANGED mlVars

\* One matrix of any shape.
NewMatrix ==
    /\ pc = "idle"
    /\ \E s \in Shapes : a' \in MatricesOf(s[1], s[2], Entries)
    /\ pc' = "ready"
    /\ op' = "new"
    /\ UNCHANGED <<b, v, w, rng, out>>
    /\ UNCHANGED mlVars

\* Two matrices of any shapes.
NewMatrices ==
    /\ pc = "idle"
    /\ \E s \in Shapes : a' \in MatricesOf(s[1], s[2], Entries)
    /\ \E s \in Shapes : b' \in MatricesOf(s[1], s[2], Entries)
    /\ pc' = "ready"
    /\ op' = "new2"
    /\ UNCHANGED <<v, w, rng, out>>
    /\ UNCHANGED mlVars

\* A matrix and a vector.
NewMatrixVector ==
    /\ pc = "idle"
    /\ \E s \in Shapes : a' \in MatricesOf(s[1], s[2], Entries)
    /\ \E len \in 0..MaxCells : v' \in VectorsOf(len)
    /\ pc' = "ready"
    /\ op' = "new_mv"
    /\ UNCHANGED <<b, w, rng, out>>
    /\ UNCHANGED mlVars

\* Two vectors.
NewVectors ==
    /\ pc = "idle"
    /\ \E len \in 0..MaxLen : v' \in VectorsOf(len)
    /\ \E len \in 0..MaxLen : w' \in VectorsOf(len)
    /\ pc' = "ready"
    /\ op' = "new_vv"
    /\ UNCHANGED <<a, b, rng, out>>
    /\ UNCHANGED mlVars

\* One matrix of any shape, to swap the columns or the rows of.
NewSwapMatrix ==
    /\ pc = "idle"
    /\ \E n \in 0..MaxSwapCells, m \in 0..MaxSwapCells :
        /\ n * m <= MaxSwapCells
        /\ a' \in MatricesOf(n, m, Entries)
    /\ pc' = "ready"
    /\ op' = "new_swap"
    /\ UNCHANGED <<b, v, w, rng, out>>
    /\ UNCHANGED mlVars

\* A classifier with some model of d features, and the arguments of a call of
\* train: samples of dimension d, which are the rows of a design matrix, and
\* one label for each sample.
NewTraining ==
    /\ pc = "idle"
    /\ \E d \in 0..MaxFeatures, cnt \in 0..MaxSamples :
        /\ model' \in VectorsOf(d)
        /\ samples' \in [1..cnt -> VectorsOf(d)]
        /\ labels' \in VectorsOf(cnt)
    /\ pc' = "ready"
    /\ op' = "new_training"
    /\ UNCHANGED <<a, b, v, w, rng, out>>
    /\ UNCHANGED esVars

\* Matrix::identity(n)
NewIdentity ==
    /\ pc = "idle"
    /\ \E n \in 0..MaxIdN : a' = identity(n)
    /\ pc' = "ready"
    /\ op' = "identity"
    /\ UNCHANGED <<b, v, w, rng, out>>
    /\ UNCHANGED mlVars

\* A symmetric positive-definite matrix with an exact factor.
NewGram ==
    /\ pc = "idle"
    /\ \E n \in 0..MaxCholN : \E f \in Factors(n) : a' = GramOf(n, f)
    /\ pc' = "ready"
    /\ op' = "gram"
    /\ UNCHANGED <<b, v, w, rng, out>>
    /\ UNCHANGED mlVars

Done(name) ==
    /\ pc' = "done"
    /\ op' = name

\* a.inverse()
CallInverse ==
    /\ pc = "ready" /\ op = "new"
    /\ out' = inverse(a)
    /\ Done("inverse")
    /\ UNCHANGED <<a, b, v, w, rng>>
    /\ UNCHANGED mlVars

\* a.invert_in_place()
CallInvertInPlace ==
    /\ pc = "ready" /\ op = "new"
    /\ out' = invert_in_place(a)
    /\ Done("invert_in_place")
    /\ UNCHANGED <<a, b, v, w, rng>>
    /\ UNCHANGED mlVars

\* a.determinant()
CallDeterminant ==
    /\ pc = "ready" /\ op \in {"new", "identity"}
    /\ out' = Ok(determinant(a))
    /\ Done("determinant")
    /\ UNCHANGED <<a, b, v, w, rng>>
    /\ UNCHANGED mlVars

\* a.cholesky()
CallCholesky ==
    /\ pc = "ready" /\ op = "gram"
    /\ out' = cholesky(a)
    /\ Done("cholesky")
    /\ UNCHANGED <<a, b, v, w, rng>>
    /\ UNCHANGED mlVars

\* a.transpose()
CallTranspose ==
    /\ pc = "ready" /\ op = "new"
    /\ out' = Ok(transpose(a))
    /\ Done("transpose")
    /\ UNCHANGED <<a, b, v, w, rng>>
    /\ UNCHANGED mlVars

\* &a * &b
CallMul ==
    /\ pc = "ready" /\ op = "new2"
    /\ out' = MatMul(a, b)
    /\ Done("mul")
    /\ UNCHANGED <<a, b, v, w, rng>>
    /\ UNCHANGED mlVars

\* &a * &v
CallMulVector ==
    /\ pc = "ready" /\ op = "new_mv"
    /\ out' = MatVecMul(a, v)
    /\ Done("mul_vector")
    /\ UNCHANGED <<a, b, v, w, rng>>
    /\ UNCHANGED mlVars

\* let mut c = a.clone(); c.append_cols(b.clone()); c.keep_cols(start..end);
\* for a range within the columns of c.
CallAppendKeep ==
    /\ pc = "ready" /\ op = "new2"
    /\ \E end \in 0..(a.n + b.n) : \E start \in 0..end :
        /\ rng' = <<start, end>>
        /\ out' = LET c == append_cols(a, b)
                  IN  IF c = Panic THEN Panic ELSE keep_cols(c.val, start, end)
    /\ Done("append_keep")
    /\ UNCHANGED <<a, b, v, w>>
    /\ UNCHANGED mlVars

\* v.add_in_place(&w): out is the receiver after the call.
CallAddInPlace ==
    /\ pc = "ready" /\ op = "new_vv"
    /\ out' = Ok(add_in_place(v, w))
    /\ Done("add_in_place")
    /\ UNCHANGED <<a, b, v, w, rng>>
    /\ UNCHANGED mlVars

\* let mut c = a.clone(); c.swap_cols(xa, xb), for xa, xb < a.n: out is c
\* after the call.
CallSwapCols ==
    /\ pc = "ready" /\ op = "new_swap"
    /\ \E xa \in 0..(a.n - 1), xb \in 0..(a.n - 1) :
        /\ rng' = <<xa, xb>>
        /\ out' = swap_cols(a, xa, xb)
    /\ Done("swap_cols")
    /\ UNCHANGED <<a, b, v, w>>
    /\ UNCHANGED mlVars

\* let mut c = a.clone(); c.swap_rows(ya, yb), for ya, yb < a.m: out is c
\* after the call.
CallSwapRows ==
    /\ pc = "ready" /\ op = "new_swap"
    /\ \E ya \in 0..(a.m - 1), yb \in 0..(a.m - 1) :
        /\ rng' = <<ya, yb>>
        /\ out' = swap_rows(a, ya, yb)
    /\ Done("swap_rows")
    /\ UNCHANGED <<a, b, v, w>>
    /\ UNCHANGED mlVars

\* classifier.train(&samples, &labels): out is the model after the call, the
\* variable model the one before it.
CallTrain ==
    /\ pc = "ready" /\ op = "new_training"
    /\ out' = train(model, samples, labels)
    /\ Done("train")
    /\ UNCHANGED <<a, b, v, w, rng>>
    /\ UNCHANGED mlVars

\* The caller keeps the matrix r.val an operation left, or unwinds when the
\* operation panicked.
\* CmaEs::optimize up to CmaEsSlave::new(n, self.pop), for a function f of n
\* parameters, a population of pop and t generations.
EsNew ==
    /\ pc = "idle"
    /\ \E n \in 1..MaxEsN, pop \in 1..MaxPop, t \in 0..MaxGenerations :
        /\ slave' = CmaEsSlaveNew(n, pop)
        /\ run' = [t |-> t, gen |-> 0, i |-> 0]
    /\ seen' = NothingSeen
    /\ pc' = "es_weights"
    /\ op' = "optimize"
    /\ UNCHANGED <<a, b, v, w, rng, out, lrVars>>

\* CmaEsSlave::optimize: self.compute_weights().
EsComputeWeights ==
    /\ pc = "es_weights"
    /\ slave' = [slave EXCEPT !.weights = compute_weights(slave)]
    /\ pc' = "es_loop"
    /\ UNCHANGED <<op, a, b, v, w, rng, out, lrVars, run, seen>>

\* The head of `for _ in 0..t` when a generation is left to run.
EsNextGeneration ==
    /\ pc = "es_loop" /\ run.gen < run.t
    /\ run' = [run EXCEPT !.i = 0]
    /\ seen' = [seen EXCEPT !.scores = <<>>, !.sampled = <<>>, !.passed = <<>>]
    /\ pc' = "es_sample"
    /\ UNCHANGED <<op, a, b, v, w, rng, out, lrVars, slave>>

\* One turn of the loop of generate_population: slot i of the population is
\* set to a new sample. L is the same in every turn, the covariance being left
\* alone by the loop.
EsSample ==
    /\ pc = "es_sample"
    /\ \E normal \in [1..slave.n -> Elems(Draws)] :
        LET L == cholesky(slave.covariance)
            sample == IF L.tag = "ok" THEN generate_sample(slave.mean, L.val, normal)
                      ELSE Panic
            written == IF sample = Panic THEN Panic
                       ELSE set_col(slave.population, run.i, sample.val)
        IN  IF written = Panic
            THEN /\ pc' = "done"
                 /\ out' = Panic
                 /\ UNCHANGED <<slave, run, seen>>
            ELSE /\ slave' = [slave EXCEPT !.population = written.val]
                 /\ seen' = [seen EXCEPT !.sampled = Append(@, sample.val)]
                 /\ run' = [run EXCEPT !.i = IF run.i + 1 < slave.pop THEN run.i + 1 ELSE 0]
                 /\ pc' = IF run.i + 1 < slave.pop THEN "es_sample" ELSE "es_eval"
                 /\ out' = out
    /\ UNCHANGED <<op, a, b, v, w, rng, lrVars>>

\* One turn of the map of adapt_covariance: f(&self.population.row(i)), the
\* score being whatever f returns.
EsEvaluate ==
    /\ pc = "es_eval"
    /\ LET candidate == row(slave.population, run.i)
       IN  IF candidate = Panic
           THEN /\ pc' = "done"
                /\ out' = Panic
                /\ UNCHANGED <<run, seen>>
           ELSE /\ \E score \in Elems(Scores) :
                      seen' = [seen EXCEPT !.calls = @ + 1,
                                           !.scores = Append(@, score),
                                           !.passed = Append(@, candidate.val)]
                /\ run' = [run EXCEPT !.i = IF run.i + 1 < slave.pop THEN run.i + 1 ELSE 0]
                /\ pc' = IF run.i + 1 < slave.pop THEN "es_eval" ELSE "es_adapt"
                /\ out' = out
    /\ UNCHANGED <<op, a, b, v, w, rng, lrVars, slave>>

\* The rest of adapt_covariance: the new mean. The covariance is left as it
\* is. The generation is over.
EsAdapt ==
    /\ pc = "es_adapt"
    /\ LET mean == adapt_mean(slave)
       IN  IF mean = Panic
           THEN /\ pc' = "done"
                /\ out' = Panic
                /\ UNCHANGED <<slave, run>>
           ELSE /\ slave' = [slave EXCEPT !.mean = mean.val]
                /\ run' = [run EXCEPT !.gen = @ + 1]
                /\ pc' = "es_loop"
                /\ out' = out
    /\ UNCHANGED <<op, a, b, v, w, rng, lrVars, seen>>

\* The end of CmaEsSlave::optimize: self.mean is returned.
EsReturn ==
    /\ pc = "es_loop" /\ run.gen >= run.t
    /\ out' = Ok(slave.mean)
    /\ pc' = "done"
    /\ UNCHANGED <<op, a, b, v, w, rng, mlVars>>

Held(r, name) ==
    /\ op' = name
    /\ IF r = Panic
       THEN pc' = "done" /\ out' = Panic /\ a' = a
       ELSE pc' = "held" /\ out' = out /\ a' = r.val
    /\ UNCHANGED <<b, v, w>>
    /\ UNCHANGED mlVars

\* let mut a = Matrix::new(n, m, f)
HoldNew ==
    /\ pc \in {"idle", "held"}
    /\ \E s \in Shapes : \E c \in MatricesOf(s[1], s[2], Entries) : Held(Ok(c), "new")
    /\ rng' = <<0, 0>>

\* a[(x,y)] = e, for a cell of a
HoldWrite ==
    /\ pc = "held"
    /\ \E x \in 0..(a.n - 1), y \in 0..(a.m - 1), e \in Elems(Entries) :
        /\ Held(index_mut(a, x, y, e), "index_mut")
        /\ rng' = <<x, y>>

\* a.swap((xa,ya), (xb,yb)), for two cells of a
HoldSwap ==
    /\ pc = "held"
    /\ \E xa \in 0..(a.n - 1), ya \in 0..(a.m - 1),
          xb \in 0..(a.n - 1), yb \in 0..(a.m - 1) :
        /\ Held(swap(a, xa, ya, xb, yb), "swap")
        /\ rng' = <<xa, xb>>

\* a.swap_rows(ya, yb), for two rows of a
HoldSwapRows ==
    /\ pc = "held"
    /\ \E ya \in 0..(a.m - 1), yb \in 0..(a.m - 1) :
        /\ Held(swap_rows(a, ya, yb), "swap_rows")
        /\ rng' = <<ya, yb>>

\* a.swap_cols(xa, xb), for two columns of a
HoldSwapCols ==
    /\ pc = "held"
    /\ \E xa \in 0..(a.n - 1), xb \in 0..(a.n - 1) :
        /\ Held(swap_cols(a, xa, xb), "swap_cols")
        /\ rng' = <<xa, xb>>

\* a.append_cols(other), for a matrix other of as many rows as a
HoldAppendCols ==
    /\ pc = "held"
    /\ \E s \in Shapes :
        /\ s[2] = a.m
        /\ a.n + s[1] <= MaxCells
        /\ (a.n + s[1]) * a.m <= MaxCells
        /\ \E other \in MatricesOf(s[1], s[2], Entries) :
              Held(append_cols(a, other), "append_cols")
        /\ rng' = <<a.n, s[1]>>

\* a.keep_cols(start..end), for start <= end <= a.n
HoldKeepCols ==
    /\ pc = "held"
    /\ \E end \in 0..a.n : \E start \in 0..end :
        /\ Held(keep_cols(a, start, end), "keep_cols")
        /\ rng' = <<start, end>>

NextInverse == NewSquare \/ CallInverse \/ CallInvertInPlace \/ Return
SpecInverse == Init /\ [][NextInverse]_vars

NextDeterminant == NewMatrix \/ NewIdentity \/ CallDeterminant \/ Return
SpecDeterminant == Init /\ [][NextDeterminant]_vars

NextCholesky == NewGram \/ CallCholesky \/ Return
SpecCholesky == Init /\ [][NextCholesky]_vars

NextShape == NewMatrix \/ NewMatrices \/ CallTranspose \/ CallAppendKeep \/ Return
SpecShape == Init /\ [][NextShape]_vars

NextProducts == NewMatrices \/ NewMatrixVector \/ CallMul \/ CallMulVector \/ Return
SpecProducts == Init /\ [][NextProducts]_vars

NextVector == NewVectors \/ CallAddInPlace \/ Return
SpecVector == Init /\ [][NextVector]_vars

NextHeld ==
    \/ HoldNew \/ HoldWrite \/ HoldSwap \/ HoldSwapRows \/ HoldSwapCols
    \/ HoldAppendCols \/ HoldKeepCols \/ Return
SpecHeld == Init /\ [][NextHeld]_vars

NextTrain == NewTraining \/ CallTrain \/ Return
SpecTrain == Init /\ [][NextTrain]_vars

NextCmaEs ==
    \/ EsNew \/ EsComputeWeights \/ EsNextGeneration \/ EsSample \/ EsEvaluate
    \/ EsAdapt \/ EsReturn \/ Return
SpecCmaEs == Init /\ [][NextCmaEs]_vars

NextSwap == NewSwapMatrix \/ CallSwapCols \/ CallSwapRows \/ Return
SpecSwap == Init /\ [][NextSwap]_vars

Next ==
    \/ NewSquare \/ NewMatrix \/ NewMatrices \/ NewMatrixVector \/ NewVectors
    \/ NewIdentity \/ NewGram \/ NewSwapMatrix
    \/ CallSwapCols \/ CallSwapRows
    \/ HoldNew \/ HoldWrite \/ HoldSwap \/ HoldSwapRows \/ HoldSwapCols
    \/ HoldAppendCols \/ HoldKeepCols
    \/ NewTraining \/ CallTrain
    \/ EsNew \/ EsComputeWeights \/ EsNextGeneration \/ EsSample \/ EsEvaluate
    \/ EsAdapt \/ EsReturn
    \/ CallInverse \/ CallInvertInPlace \/ CallDeterminant \/ CallCholesky
    \/ CallTranspose \/ CallMul \/ CallMulVector \/ CallAppendKeep \/ CallAddInPlace
    \/ Return
Spec == Init /\ [][Next]_vars

----------------------------------------------------------------------------
(* The determinant of linear algebra, the yardstick for "invertible" and   *)
(* "singular": the expansion along the columns of a matrix of integers,    *)
(* in integer arithmetic.                                                  *)

RECURSIVE SumOfInts(_)
SumOfInts(f) ==
    IF DOMAIN f = {} THEN 0
    ELSE LET y == CHOOSE z \in DOMAIN f : TRUE
         IN  f[y] + SumOfInts([z \in DOMAIN f \ {y} |-> f[z]])

\* The determinant of the minor of the columns x.. and the rows `rows`.
RECURSIVE MinorDet(_, _, _)
MinorDet(self, x, rows) ==
    IF rows = {} THEN 1
    ELSE SumOfInts([y \in rows |->
            (IF Cardinality({r \in rows : r < y}) % 2 = 0 THEN 1 ELSE -1)
            * Index(self, x, y)[1] * MinorDet(self, x + 1, rows \ {y})])

LaplaceDet(self) == MinorDet(self, 0, 0..(self.n - 1))

----------------------------------------------------------------------------
(* Gauss-Jordan inversion: C1, C2 *)

InverseCall == pc = "done" /\ op \in {"inverse", "invert_in_place"} /\ is_squared(a)

\* C1: the inverse of a square invertible matrix is Some(B), B of the shape of
\* A, and A * B is the identity.
C1_InverseIsRightInverse ==
    (InverseCall /\ LaplaceDet(a) # 0) =>
        /\ out.tag = "some"
        /\ out.val.n = a.n
        /\ out.val.m = a.n
        /\ MatMul(a, out.val) = Ok(identity(a.n))

\* An invertible 2 x 2 matrix whose first pivot needs a row swap was inverted.
C1_Witness ==
    /\ InverseCall /\ op = "inverse"
    /\ a.n = 2 /\ Index(a, 0, 0) = Zero
    /\ out.tag = "some"

\* C2: inverting a square matrix never panics, and it returns None exactly
\* when the matrix is singular.
C2_NoneIffSingular ==
    InverseCall =>
        /\ out # Panic
        /\ (out = None) <=> (LaplaceDet(a) = 0)

\* A singular 2 x 2 matrix with a nonzero first pivot was reported as None.
C2_Witness ==
    /\ InverseCall
    /\ a.n = 2 /\ Index(a, 0, 0) # Zero
    /\ out = None

----------------------------------------------------------------------------
(* Products and dimension checks: C3, C4, C6, C10 *)

\* C3: a matrix product whose inner dimensions differ is fatal.
C3_MulMismatchIsFatal ==
    (pc = "done" /\ op = "mul" /\ a.n # b.m) => out = Panic

\* C4: add_in_place with an operand of another dimension is fatal.
C4_AddMismatchIsFatal ==
    (pc = "done" /\ op = "add_in_place" /\ dim(v) # dim(w)) => out = Panic

\* C6: for a.n = b.m the product exists and its transpose is the product of
\* the transposes in the other order, shapes included.
C6_TransposeOfProduct ==
    (pc = "done" /\ op = "mul" /\ a.n = b.m) =>
        /\ out.tag = "ok"
        /\ MatMul(transpose(b), transpose(a)) = Ok(transpose(out.val))

\* A 2 x 2 matrix that is not symmetric was multiplied by a matrix of one
\* column, and the product is not zero.
C6_Witness ==
    /\ pc = "done" /\ op = "mul"
    /\ a.n = 2 /\ a.m = 2 /\ b.m = 2 /\ b.n = 1
    /\ Index(a, 1, 0) # Index(a, 0, 1)
    /\ out.tag = "ok" /\ out.val # zero(1, 2)

\* C10: for a.n = dim(v), the product with the vector, as a column, is the
\* product with the vector's one-column matrix.
C10_VectorProductIsColumnProduct ==
    (pc = "done" /\ op = "mul_vector" /\ a.n = dim(v)) =>
        /\ out.tag = "ok"
        /\ MatMul(a, from_col(v)) = Ok(from_col(out.val))

\* A 2 x 2 matrix was multiplied by a vector with two different entries, and
\* the product is not zero.
C10_Witness ==
    /\ pc = "done" /\ op = "mul_vector"
    /\ a.n = 2 /\ a.m = 2 /\ dim(v) = 2 /\ v[1] # v[2]
    /\ out.tag = "ok" /\ out.val # <<Zero, Zero>>

----------------------------------------------------------------------------
(* Transpose, append_cols and keep_cols: C5, C7 *)

\* C5: the transpose of a matrix of n columns and m rows has m columns and n
\* rows, its cell (x,y) is the cell (y,x) of the matrix, and transposing it
\* again gives the matrix back.
C5_Transpose ==
    (pc = "done" /\ op = "transpose") =>
        /\ out.val.n = a.m
        /\ out.val.m = a.n
        /\ Len(out.val.data) = a.n * a.m
        /\ \A x \in 0..(a.m - 1), y \in 0..(a.n - 1) :
              Index(out.val, x, y) = Index(a, y, x)
        /\ transpose(out.val) = a

\* A matrix of three columns and one row with different entries was transposed.
C5_Witness ==
    /\ pc = "done" /\ op = "transpose"
    /\ a.n = 3 /\ a.m = 1
    /\ Index(a, 0, 0) # Index(a, 2, 0)

\* C7: after appending the columns of b to a (same row count), keeping the
\* columns a.n..a.n+b.n gives b and keeping the columns 0..a.n gives a.
C7_AppendKeepRoundTrip ==
    (pc = "done" /\ op = "append_keep" /\ a.m = b.m) =>
        /\ (rng = <<a.n, a.n + b.n>>) => out = Ok(b)
        /\ (rng = <<0, a.n>>) => out = Ok(a)

\* The two columns of b were recovered from behind the column of a, a and b
\* holding different entries.
C7_Witness ==
    /\ pc = "done" /\ op = "append_keep"
    /\ a.n = 1 /\ a.m = 2 /\ b.n = 2 /\ b.m = 2
    /\ rng = <<1, 3>>
    /\ Index(a, 0, 0) # Index(b, 0, 0)
    /\ out = Ok(b)

----------------------------------------------------------------------------
(* Determinant: C8 *)

\* C8: the determinant of every identity matrix is one.
C8_IdentityDeterminant ==
    (pc = "done" /\ op = "determinant" /\ a = identity(a.n)) => out = Ok(One)

\* The determinant of the identity of side 4 was taken.
C8_Witness ==
    /\ pc = "done" /\ op = "determinant"
    /\ a.n = 4 /\ a = identity(4)
    /\ out = Ok(One)

----------------------------------------------------------------------------
(* Cholesky: C9 *)

\* C9: for a symmetric positive-definite matrix with an exact factor, the
\* result L of cholesky satisfies L * L^T = A, and every cell of L in a column
\* greater than its row is zero.
C9_Cholesky ==
    (pc = "done" /\ op = "cholesky") =>
        /\ out.tag = "ok"
        /\ MatMul(out.val, transpose(out.val)) = Ok(a)
        /\ \A x \in 0..(a.n - 1), y \in 0..(a.n - 1) :
              x > y => Index(out.val, x, y) = Zero

\* A 3 x 3 matrix was factored, and the factor has no zero on or below the
\* diagonal and a diagonal entry that is not one.
C9_Witness ==
    /\ pc = "done" /\ op = "cholesky"
    /\ a.n = 3 /\ out.tag = "ok"
    /\ \A x \in 0..2, y \in 0..2 : x <= y => Index(out.val, x, y) # Zero
    /\ Index(out.val, 1, 1) # One

----------------------------------------------------------------------------
(* LinearRegression::train on a singular design: C12 *)

\* The matrix X^T * X of the design matrix X whose rows are the samples, cell
\* by cell from the samples, in integers.
DesignGram(rows) ==
    LET d == Len(rows[1])
    IN  [n |-> d, m |-> d,
         data |-> [i \in 1..(d * d) |->
            FromInt(SumOfInts([k \in 1..Len(rows) |->
                rows[k][((i - 1) \div d) + 1][1] * rows[k][((i - 1) % d) + 1][1]]))]]

SingularDesign == samples # <<>> /\ LaplaceDet(DesignGram(samples)) = 0

\* C12: train on samples whose X^T * X is singular returns normally and
\* leaves the model as it was before the call.
C12_SingularTrainKeepsModel ==
    (pc = "done" /\ op = "train" /\ SingularDesign) => out = Ok(model)

\* A model that is not zero was kept through a call with two equal samples
\* that are not zero, and two labels.
C12_Witness ==
    /\ pc = "done" /\ op = "train" /\ SingularDesign
    /\ Len(samples) = 2 /\ samples[1] = samples[2] /\ samples[1] = <<One, One>>
    /\ Len(labels) = 2
    /\ model = <<One, Zero>>
    /\ out = Ok(model)

----------------------------------------------------------------------------
(* The shape of a matrix under its mutators: C15 *)

\* C15: a matrix the caller holds, after any sequence of Matrix::new, cell
\* writes, swap, swap_rows, swap_cols, append_cols and keep_cols that returned,
\* has n * m items of data, and each cell (x,y) with x < n and y < m has its
\* index y + x * m within the data.
C15_ShapeInvariant ==
    pc = "held" =>
        /\ Len(a.data) = a.n * a.m
        /\ \A x \in 0..(a.n - 1), y \in 0..(a.m - 1) :
              /\ InBounds(a, x, y)
              /\ get_index(a, x, y) = y + x * a.m

\* Columns in the middle of a matrix of several rows were kept.
C15_Witness ==
    /\ pc = "held" /\ op = "keep_cols"
    /\ rng[1] > 0 /\ rng[2] > rng[1]
    /\ a.m >= 2

----------------------------------------------------------------------------
(* swap_cols and swap_rows: C16 *)

\* The index i of a column or row after xa and xb are exchanged.
Exchanged(i, xa, xb) == IF i = xa THEN xb ELSE IF i = xb THEN xa ELSE i

\* C16: swap_cols(xa, xb) with xa, xb < n returns normally, keeps the shape,
\* and its cell (x,y) is the cell (x',y) of the matrix before, x' being x with
\* xa and xb exchanged (so nothing changes when xa = xb); likewise
\* swap_rows(ya, yb) with ya, yb < m for the rows.
C16_SwapExchanges ==
    /\ (pc = "done" /\ op = "swap_cols") =>
        /\ out.tag = "ok"
        /\ out.val.n = a.n /\ out.val.m = a.m
        /\ Len(out.val.data) = Len(a.data)
        /\ \A x \in 0..(a.n - 1), y \in 0..(a.m - 1) :
              Index(out.val, x, y) = Index(a, Exchanged(x, rng[1], rng[2]), y)
    /\ (pc = "done" /\ op = "swap_rows") =>
        /\ out.tag = "ok"
        /\ out.val.n = a.n /\ out.val.m = a.m
        /\ Len(out.val.data) = Len(a.data)
        /\ \A x \in 0..(a.n - 1), y \in 0..(a.m - 1) :
              Index(out.val, x, y) = Index(a, x, Exchanged(y, rng[1], rng[2]))

----------------------------------------------------------------------------
(* CmaEs::optimize: C11, C13, C14 *)

\* C11: when CmaEs::optimize is over, it has run exactly t generations, has
\* called f pop times in each of them, pop * t times in all, and has returned
\* the mean of the slave; it does not panic.
C11_OptimizeRunsEveryGeneration ==
    (pc = "done" /\ op = "optimize") =>
        /\ out = Ok(slave.mean)
        /\ run.gen = run.t
        /\ seen.calls = slave.pop * run.t

\* C13: every candidate written into the population has dimension n, and the
\* k-th vector passed to f in a generation is the candidate written for slot k
\* in that generation, of dimension n.
C13_EvaluateReadsTheSample ==
    op = "optimize" =>
        /\ \A k \in 1..Len(seen.sampled) : dim(seen.sampled[k]) = slave.n
        /\ \A k \in 1..Len(seen.passed) :
              /\ dim(seen.passed[k]) = slave.n
              /\ seen.passed[k] = seen.sampled[k]

\* The orders of the slots 1..pop by the scores of this generation, best
\* first, whether the best score is the highest or the lowest.
RankOrders ==
    {r \in [1..slave.pop -> 1..slave.pop] :
        /\ \A i, j \in 1..slave.pop : i # j => r[i] # r[j]
        /\ \/ \A i, j \in 1..slave.pop :
                i < j => seen.scores[r[j]][1] <= seen.scores[r[i]][1]
           \/ \A i, j \in 1..slave.pop :
                i < j => seen.scores[r[i]][1] <= seen.scores[r[j]][1]}

\* The sum of weights[i] times the candidate ranked i by r, for the first cnt
\* ranks.
RECURSIVE RankedSum(_, _)
RankedSum(r, cnt) ==
    IF cnt = 0 THEN VectorZero(slave.n)
    ELSE VectorAdd(RankedSum(r, cnt - 1),
                   VectorScale(seen.sampled[r[cnt]], slave.weights[cnt]))

\* C14: after a generation, the mean is the sum of weights[i] times the i-th
\* best candidate of the generation, ranked by the scores f returned, over
\* the mu = n/2 best ones, divided by pop.
C14_MeanOfTheBestRanked ==
    (pc = "es_loop" /\ op = "optimize" /\ run.gen > 0) =>
        \E r \in RankOrders :
            slave.mean = VectorDiv(RankedSum(r, Len(slave.weights)), FromInt(slave.pop))

====
